---- MODULE Spec2Model ----
\* mux: a development-time HTTP front door that serves every sub-directory of
\* a root directory at <name>.<domain>, launching the app on first request.
\*
\* Two programs of the repository are modelled side by side, selected by the
\* variable `build`:
\*   "main"  - src/main.go: registry of struct values, inline reaper;
\*   "watch" - src/unnamed/part_000 lines 43-403: registry of *appInfo, a
\*             file watcher per app, reaper calling stopApp.
\* Strings of the program are sequences of one-character strings, so that
\* prefix/suffix operations are computed as the code computes them.
\* Spec and FairSpec run the program; CallSpec applies single functions of
\* it (the name of a Host, matchInverted, the watcher's handling of one
\* event) to arguments drawn from bounded sets.
\* Children are assumed to run until they are killed.  Requests are numbered
\* in the order of their arrival; a handler stays in its last position once
\* it has answered.
EXTENDS Integers, Sequences, FiniteSets, TLC

\* ---------------------------------------------------------------- bounds
MaxRequests == 2      \* requests received over a run
MaxTime     == 2      \* clock ticks over a run (one tick = 10 minutes)

\* ------------------------------------------------------ program constants
IdleTTL == 1          \* idleTTL = 10 * time.Minute, in ticks of 10 minutes

Handlers == 1..MaxRequests        \* net/http runs one goroutine per request
Pids     == 1..MaxRequests        \* a request spawns at most one child
Ports    == 1..(MaxRequests + 1)  \* ephemeral ports the OS can hand out
Times    == 0..MaxTime

\* ------------------------------------------------------------- strings
HasPrefix(s, p) == Len(s) >= Len(p) /\ SubSeq(s, 1, Len(p)) = p

HasSuffix(s, p) == Len(s) >= Len(p) /\ SubSeq(s, Len(s) - Len(p) + 1, Len(s)) = p

TrimSuffix(s, p) == IF HasSuffix(s, p) THEN SubSeq(s, 1, Len(s) - Len(p)) ELSE s

\* strings.Split(s, sep)[0]: the part of s before the first sep, or all of s
SplitHead(s, sep) ==
    IF \E i \in 1..Len(s) : s[i] = sep
    THEN LET k == CHOOSE i \in 1..Len(s) :
                      s[i] = sep /\ \A j \in 1..(i - 1) : s[j] # sep
         IN  SubSeq(s, 1, k - 1)
    ELSE s

IsSpace(c) == c \in {" ", "\t"}

RECURSIVE TrimLeft(_)
TrimLeft(s) == IF s # <<>> /\ IsSpace(Head(s)) THEN TrimLeft(Tail(s)) ELSE s

RECURSIVE TrimRight(_)
TrimRight(s) ==
    IF s # <<>> /\ IsSpace(s[Len(s)]) THEN TrimRight(SubSeq(s, 1, Len(s) - 1)) ELSE s

TrimSpace(s) == TrimRight(TrimLeft(s))

\* ------------------------------------------------------- configuration
Domain == <<"d">>                 \* -host d
WWW    == <<"w", "w", "w">>
WebPfx == <<"w", "e", "b", ":">>

\* ---------------------------------------------------------- file system
\* root/a   : Procfile "# app" / "web: r"            (launchable)
\* root/www : index.html, no Procfile                (static)
\* root/b   : Procfile "web:  " / "web: r"           (first web: line empty)
\* root/u   : Procfile that cannot be opened         (mode 000)
\* root/f   : a regular file
\* root/c   : Procfile "# app"                       (no web: line)
NameA == <<"a">>
NameB == <<"b">>
NameU == <<"u">>
NameF == <<"f">>
NameN == <<"n">>
NameC == <<"c">>

LineComment == <<"#", " ", "a", "p", "p">>
LineWeb     == <<"w", "e", "b", ":", " ", "r">>
LineWebNone == <<"w", "e", "b", ":", " ", " ">>

NoFile == [exists |-> FALSE, readable |-> FALSE, lines |-> <<>>]

Root ==
    (NameA :> [isDir |-> TRUE,
               procfile |-> [exists |-> TRUE, readable |-> TRUE,
                             lines |-> <<LineComment, LineWeb>>]]) @@
    (WWW   :> [isDir |-> TRUE, procfile |-> NoFile]) @@
    (NameB :> [isDir |-> TRUE,
               procfile |-> [exists |-> TRUE, readable |-> TRUE,
                             lines |-> <<LineWebNone, LineWeb>>]]) @@
    (NameU :> [isDir |-> TRUE,
               procfile |-> [exists |-> TRUE, readable |-> FALSE, lines |-> <<>>]]) @@
    (NameF :> [isDir |-> FALSE, procfile |-> NoFile]) @@
    (NameC :> [isDir |-> TRUE,
               procfile |-> [exists |-> TRUE, readable |-> TRUE,
                             lines |-> <<LineComment>>]])

\* os.Stat(dir): err == nil && fi.IsDir()
StatIsDir(name) == name \in DOMAIN Root /\ Root[name].isDir

\* os.Stat(dir/Procfile): !os.IsNotExist(err)
ProcfileExists(name) == name \in DOMAIN Root /\ Root[name].procfile.exists

\* Host headers of inbound requests
Hosts == { <<"a", ".", "d">>, <<"a", ".", "d", ":", "7">>, <<"d">>, <<"d", ":", "7">>,
           <<"b", ".", "d">>, <<"u", ".", "d">>, <<"f", ".", "d">>, <<"n", ".", "d">>,
           <<"c", ".", "d">> }

\* RouteName without the default name
RouteNameNoDefault(host) ==
    TrimSuffix(TrimSuffix(SplitHead(host, ":"), Domain), <<".">>)

\* name := TrimSuffix(TrimSuffix(Split(r.Host, ":")[0], domain), "."); "" -> "www"
RouteName(host) ==
    LET n == TrimSuffix(TrimSuffix(SplitHead(host, ":"), Domain), <<".">>)
    IN  IF n = <<>> THEN WWW ELSE n

\* ScanWeb that goes on to the next line when a "web:" line has no command
RECURSIVE ScanWebNonEmpty(_)
ScanWebNonEmpty(lines) ==
    IF lines = <<>> THEN <<>>
    ELSE IF /\ HasPrefix(Head(lines), WebPfx)
            /\ TrimSpace(SubSeq(Head(lines), 5, Len(Head(lines)))) # <<>>
         THEN TrimSpace(SubSeq(Head(lines), 5, Len(Head(lines))))
         ELSE ScanWebNonEmpty(Tail(lines))

\* the scanner loop of start: command of the first line prefixed "web:"
RECURSIVE ScanWeb(_)
ScanWeb(lines) ==
    IF lines = <<>> THEN <<>>
    ELSE IF HasPrefix(Head(lines), WebPfx)
         THEN TrimSpace(SubSeq(Head(lines), 5, Len(Head(lines))))
         ELSE ScanWeb(Tail(lines))

\* ------------------------------------------------------------- paths
\* A path is the sequence of its components, as strings.Split(path, "/")
\* yields them; an absolute path starts with the empty component.
RootDir  == <<"r">>                                   \* -dir /r
DotWatch == <<".", "w", "a", "t", "c", "h">>
Src      == <<"s", "r", "c">>
FileTxt  == <<"a", ".", "t", "x", "t">>
Readme   == <<"R", "E", "A", "D", "M", "E">>
NewDir   == <<"n", "e", "w">>
Star     == <<"*">>

\* filepath.Join(root, name)
AppDir(name) == << <<>>, RootDir, name >>

\* filepath.Join(dir, rel...)
Join(dir, rel) == dir \o rel

\* paths below an app directory for which the file system raises events
RelPaths == { <<DotWatch>>, <<Src, FileTxt>>, <<Readme>>, <<Src, NewDir>> }

\* os.Stat(event.Name): err == nil && fi.IsDir()
RelDirs == { <<Src, NewDir>> }

\* directories of an app's tree that exist at launch and do not start with "."
LaunchDirs(dir) == { dir, Join(dir, <<Src>>) }

ParentDir(path) == SubSeq(path, 1, Len(path) - 1)

\* ----------------------------------------------------- ignore patterns
\* A compiled pattern set is [nil, pats]; a pattern is a sequence of
\* components, "*" standing for any one component.  As in gitignore, a
\* pattern applies at any depth of the path and covers what lies below it.
NilIg == [nil |-> TRUE, pats |-> {}]

PatternAt(pat, path, k) ==
    /\ k + Len(pat) <= Len(path)
    /\ \A i \in 1..Len(pat) : pat[i] = Star \/ pat[i] = path[k + i]

\* ig.MatchesPath(path)
MatchesPath(ig, path) ==
    \E pat \in ig.pats : \E k \in 0..Len(path) : PatternAt(pat, path, k)

\* contents of root/a/.watch the model starts from: absent, "src/*", "*"
WatchFiles == { [exists |-> FALSE, pats |-> {}],
                [exists |-> TRUE,  pats |-> { <<Src, Star>> }],
                [exists |-> TRUE,  pats |-> { <<Star>> }] }

\* ignore.CompileIgnoreFile(file): nil when the file cannot be read
loadInvertedIgnore(file) ==
    IF file.exists THEN [nil |-> FALSE, pats |-> file.pats] ELSE NilIg

\* matchInverted that rejects every path with a component beginning with "."
matchInvertedNoDots(path, ig) ==
    IF ig.nil THEN FALSE
    ELSE IF \E i \in 1..Len(path) : HasPrefix(path[i], <<".">>)
         THEN FALSE
         ELSE MatchesPath(ig, path)

matchInverted(path, ig) ==
    IF ig.nil THEN FALSE
    ELSE IF \E i \in 1..Len(path) :
                HasPrefix(path[i], <<".">>) /\ ~MatchesPath(ig, path)
         THEN FALSE
         ELSE MatchesPath(ig, path)

\* ------------------------------------------------------------- state
VARIABLES
    build,      \* which program runs: "main" or "watch"
    watchFile,  \* contents of root/a/.watch
    now,        \* time.Now(), in ticks
    mu,         \* the registry mutex: the thread holding it, or Free
    apps,       \* the registry: a map from app name to record
    app,        \* watch build: the appInfo objects, by the pid of their child
    child,      \* processes spawned by the supervisor, by pid
    nproc,      \* number of processes spawned so far
    req,        \* per handler: position and locals of the request in progress
    rpc,        \* reaper: position
    rtodo,      \* reaper: registry entries the range loop has yet to visit
    rcur,       \* reaper: the appInfo handed to stopApp
    wpc,        \* per appInfo: position of its watcher goroutine
    wev,        \* per appInfo: the event its watcher goroutine still has to
                \* evaluate after the first stopApp
    probed,     \* history: <<pid, port>> for which waitPort returned nil
    call        \* a function of the program applied on its own: its name,
                \* its argument and its result (CallSpec only)

vars == << build, watchFile, now, mu, apps, app, child, nproc, req,
           rpc, rtodo, rcur, wpc, wev, probed, call >>

\* ------------------------------------------------------------ threads
Free    == <<"free", 0>>
Reaper  == <<"reaper", 0>>
H(i)    == <<"handler", i>>
W(p)    == <<"watcher", p>>

EmptyMap == [x \in {} |-> 0]

MapPut(m, k, v) == [x \in DOMAIN m \cup {k} |-> IF x = k THEN v ELSE m[x]]

MapDelete(m, k) == [x \in DOMAIN m \ {k} |-> m[x]]

NoChild == [name |-> <<>>, cmd |-> <<>>, port |-> 0, st |-> "none"]

NoApp == [name |-> <<>>, dir |-> <<>>, p |-> 0, c |-> 0, t |-> 0,
          watcher |-> "nil", watched |-> {}, ig |-> NilIg]

NoEvent == [name |-> <<>>, create |-> FALSE]

\* the zero value of the handler's local `a`
NilA(b) == IF b = "main" THEN [p |-> 0, c |-> 0, t |-> 0] ELSE 0

IdleReq(b) == [pc |-> "idle", name |-> <<>>, a |-> NilA(b), err |-> "",
               fp |-> 0, c |-> 0]

\* no function is being applied on its own
NoCall == [fn |-> "none", arg |-> <<>>, ret |-> <<>>, done |-> FALSE]

\* the program after construction
ProgInit ==
    /\ build \in {"main", "watch"}
    /\ watchFile \in WatchFiles
    /\ build = "main" => ~watchFile.exists
    /\ now = 0
    /\ mu = Free
    /\ apps = EmptyMap
    /\ app = [p \in Pids |-> NoApp]
    /\ child = [p \in Pids |-> NoChild]
    /\ nproc = 0
    /\ req = [i \in Handlers |-> IdleReq(build)]
    /\ rpc = "sleep"
    /\ rtodo = {}
    /\ rcur = 0
    /\ wpc = [p \in Pids |-> "none"]
    /\ wev = [p \in Pids |-> NoEvent]
    /\ probed = {}

Init ==
    /\ call = NoCall
    /\ ProgInit

\* ------------------------------------------------------------ children
\* net.DialTimeout("tcp", 127.0.0.1:port) succeeds
Dial(port) == \E p \in Pids : child[p].st = "listening" /\ child[p].port = port

\* freePort(): the OS hands out an ephemeral port that no live process was
\* given (the lowest one, to keep the choice out of the state)
FreePorts == { q \in Ports : \A p \in Pids :
                  child[p].st \in {"running", "listening"} => child[p].port # q }

freePort == CHOOSE q \in FreePorts : \A r \in FreePorts : q <= r

\* the child binds the port it was given in PORT
ChildBind(p) ==
    /\ child[p].st = "running"
    /\ ~Dial(child[p].port)
    /\ child' = [child EXCEPT ![p].st = "listening"]
    /\ UNCHANGED << call, build, watchFile, now, mu, apps, app, nproc, req,
                    rpc, rtodo, rcur, wpc, wev, probed >>

\* cmd.Process.Kill(): no effect on a process that is already gone
Kill(ch, p) == IF ch[p].st \in {"running", "listening"}
               THEN [ch EXCEPT ![p].st = "dead"] ELSE ch

Tick ==
    /\ now < MaxTime
    /\ now' = now + 1
    /\ UNCHANGED << call, build, watchFile, mu, apps, app, child, nproc, req,
                    rpc, rtodo, rcur, wpc, wev, probed >>

\* ------------------------------------------------------------ handler
\* Route without the test for a missing Procfile
RouteNoStatic(i, host) ==
    /\ req[i].pc = "idle"
    /\ \A j \in 1..(i - 1) : req[j].pc # "idle"
    /\ LET name == RouteName(host)
       IN  req' = [req EXCEPT ![i].name = name,
                              ![i].pc = IF ~StatIsDir(name) THEN "notfound"
                                        ELSE "lock"]
    /\ UNCHANGED << call, build, watchFile, now, mu, apps, app, child, nproc,
                    rpc, rtodo, rcur, wpc, wev, probed >>

\* name extraction and the two os.Stat checks; 404 and static files are
\* answered without touching the registry
Route(i, host) ==
    /\ req[i].pc = "idle"
    /\ \A j \in 1..(i - 1) : req[j].pc # "idle"
    /\ LET name == RouteName(host)
       IN  req' = [req EXCEPT ![i].name = name,
                              ![i].pc = IF ~StatIsDir(name) THEN "notfound"
                                        ELSE IF ~ProcfileExists(name) THEN "static"
                                        ELSE "lock"]
    /\ UNCHANGED << call, build, watchFile, now, mu, apps, app, child, nproc,
                    rpc, rtodo, rcur, wpc, wev, probed >>

\* HandlerLock with a mutex that does not exclude
HandlerLockNoExclusion(i) ==
    /\ req[i].pc = "lock"
    /\ mu' = H(i)
    /\ req' = IF req[i].name \in DOMAIN apps
              THEN [req EXCEPT ![i].a = apps[req[i].name], ![i].pc = "found"]
              ELSE [req EXCEPT ![i].pc = "start"]
    /\ UNCHANGED << call, build, watchFile, now, apps, app, child, nproc,
                    rpc, rtodo, rcur, wpc, wev, probed >>

\* mu.Lock(); a, ok := apps[name]
HandlerLock(i) ==
    /\ req[i].pc = "lock"
    /\ mu = Free
    /\ mu' = H(i)
    /\ req' = IF req[i].name \in DOMAIN apps
              THEN [req EXCEPT ![i].a = apps[req[i].name], ![i].pc = "found"]
              ELSE [req EXCEPT ![i].pc = "start"]
    /\ UNCHANGED << call, build, watchFile, now, apps, app, child, nproc,
                    rpc, rtodo, rcur, wpc, wev, probed >>

\* HandlerFail that returns without mu.Unlock()
HandlerFailNoUnlock(i, fp, err) ==
    /\ mu' = mu
    /\ req' = [req EXCEPT ![i].fp = fp, ![i].err = err, ![i].pc = "err500"]

\* start returned err (having got as far as the port fp): mu.Unlock();
\* http.Error(w, err.Error(), 500); return
HandlerFail(i, fp, err) ==
    /\ mu' = Free
    /\ req' = [req EXCEPT ![i].fp = fp, ![i].err = err, ![i].pc = "err500"]

\* start, lines 145-162: os.Open(Procfile) fails, or no line prefixed "web:"
\* carries a command; the handler answers 500
StartNoCommand(i) ==
    /\ req[i].pc = "start"
    /\ LET pf == Root[req[i].name].procfile
       IN  /\ ~pf.readable \/ ScanWeb(pf.lines) = <<>>
           /\ HandlerFail(i, 0, IF ~pf.readable THEN "open" ELSE "no web entry")
    /\ UNCHANGED << call, build, watchFile, now, apps, app, child, nproc,
                    rpc, rtodo, rcur, wpc, wev, probed >>

\* start, lines 145-173: the command is read, fp := freePort(), and
\* cmd.Start() succeeds: sh -c cmdStr runs in the app directory with PORT=fp
StartSpawn(i) ==
    /\ req[i].pc = "start"
    /\ LET pf == Root[req[i].name].procfile
           fp == freePort
       IN  /\ pf.readable /\ ScanWeb(pf.lines) # <<>>
           /\ nproc' = nproc + 1
           /\ child' = [child EXCEPT ![nproc + 1] =
                           [name |-> req[i].name, cmd |-> ScanWeb(pf.lines),
                            port |-> fp, st |-> "running"]]
           /\ req' = [req EXCEPT ![i].fp = fp, ![i].c = nproc + 1, ![i].pc = "wait"]
    /\ UNCHANGED << call, build, watchFile, now, mu, apps, app,
                    rpc, rtodo, rcur, wpc, wev, probed >>

\* start, lines 145-173: the command is read, fp := freePort(), and
\* cmd.Start() returns an error; the handler answers 500
StartSpawnErr(i) ==
    /\ req[i].pc = "start"
    /\ LET pf == Root[req[i].name].procfile
       IN  /\ pf.readable /\ ScanWeb(pf.lines) # <<>>
           /\ HandlerFail(i, freePort, "spawn")
    /\ UNCHANGED << call, build, watchFile, now, apps, app, child, nproc,
                    rpc, rtodo, rcur, wpc, wev, probed >>

\* the appInfo built by start, and startWatcher(app): load dir/.watch, watch
\* every directory of the tree, start the goroutine
NewAppInfo(i) ==
    LET dir == AppDir(req[i].name)
    IN  [name |-> req[i].name, dir |-> dir, p |-> req[i].fp, c |-> req[i].c,
         t |-> now, watcher |-> "open", watched |-> LaunchDirs(dir),
         ig |-> loadInvertedIgnore(watchFile)]

\* start: waitPort(fp, 5s) returns nil; the rest of start up to its return
StartReady(i) ==
    /\ req[i].pc = "wait"
    /\ Dial(req[i].fp)
    /\ probed' = probed \cup { <<req[i].c, req[i].fp>> }
    /\ IF build = "watch"
       THEN /\ app' = [app EXCEPT ![req[i].c] = NewAppInfo(i)]
            /\ wpc' = [wpc EXCEPT ![req[i].c] = "recv"]
       ELSE UNCHANGED << app, wpc >>
    /\ req' = [req EXCEPT ![i].pc = "started"]
    /\ UNCHANGED << call, build, watchFile, now, mu, apps, child, nproc,
                    rpc, rtodo, rcur, wev >>

\* StartTimeout that drops the error of waitPort and goes on
StartTimeoutIgnored(i) ==
    /\ req[i].pc = "wait"
    /\ ~Dial(req[i].fp)
    /\ IF build = "watch"
       THEN /\ app' = [app EXCEPT ![req[i].c] = NewAppInfo(i)]
            /\ wpc' = [wpc EXCEPT ![req[i].c] = "recv"]
       ELSE UNCHANGED << app, wpc >>
    /\ req' = [req EXCEPT ![i].pc = "started"]
    /\ UNCHANGED << call, build, watchFile, now, mu, apps, child, nproc,
                    rpc, rtodo, rcur, wev, probed >>

\* start: waitPort(fp, 5s) returns the timeout error; start returns it and
\* the handler answers 500
StartTimeout(i) ==
    /\ req[i].pc = "wait"
    /\ ~Dial(req[i].fp)
    /\ HandlerFail(i, req[i].fp, "timeout")
    /\ UNCHANGED << call, build, watchFile, now, apps, app, child, nproc,
                    rpc, rtodo, rcur, wpc, wev, probed >>

\* the record the handler ends up with in `a`
HandlerRecord(i) ==
    IF build = "watch"
    THEN IF req[i].pc = "started" THEN req[i].c ELSE req[i].a
    ELSE IF req[i].pc = "started"
         THEN [p |-> req[i].fp, c |-> req[i].c, t |-> now]
         ELSE [req[i].a EXCEPT !.t = now]

\* HandlerPublish that serves without mu.Unlock()
HandlerPublishNoUnlock(i) ==
    /\ req[i].pc \in {"started", "found"}
    /\ LET a == HandlerRecord(i)
       IN  /\ req' = [req EXCEPT ![i].a = a, ![i].pc = "serve"]
           /\ IF build = "watch"
              THEN /\ apps' = IF req[i].pc = "started"
                              THEN MapPut(apps, req[i].name, a) ELSE apps
                   /\ app' = [app EXCEPT ![a].t = now]
              ELSE /\ apps' = MapPut(apps, req[i].name, a)
                   /\ app' = app
    /\ UNCHANGED << call, build, watchFile, now, mu, child, nproc,
                    rpc, rtodo, rcur, wpc, wev, probed >>

\* HandlerPublish that stamps the time on its own copy of a found record only
HandlerPublishCopyOnly(i) ==
    /\ req[i].pc \in {"started", "found"}
    /\ LET a == HandlerRecord(i)
       IN  /\ req' = [req EXCEPT ![i].a = a, ![i].pc = "serve"]
           /\ IF req[i].pc = "found"
              THEN UNCHANGED << apps, app >>
              ELSE IF build = "watch"
              THEN /\ apps' = MapPut(apps, req[i].name, a)
                   /\ app' = [app EXCEPT ![a].t = now]
              ELSE /\ apps' = MapPut(apps, req[i].name, a)
                   /\ app' = app
    /\ mu' = Free
    /\ UNCHANGED << call, build, watchFile, now, child, nproc,
                    rpc, rtodo, rcur, wpc, wev, probed >>

\* the rest of the locked section: insert a new record, a.t = time.Now(),
\* (main: apps[name] = a), mu.Unlock()
HandlerPublish(i) ==
    /\ req[i].pc \in {"started", "found"}
    /\ LET a == HandlerRecord(i)
       IN  /\ req' = [req EXCEPT ![i].a = a, ![i].pc = "serve"]
           /\ IF build = "watch"
              THEN /\ apps' = IF req[i].pc = "started"
                              THEN MapPut(apps, req[i].name, a) ELSE apps
                   /\ app' = [app EXCEPT ![a].t = now]
              ELSE /\ apps' = MapPut(apps, req[i].name, a)
                   /\ app' = app
    /\ mu' = Free
    /\ UNCHANGED << call, build, watchFile, now, child, nproc,
                    rpc, rtodo, rcur, wpc, wev, probed >>

\* ------------------------------------------------------------- stopApp
\* threads that call stopApp, the appInfo they pass, and where they are
StopCallers == {Reaper} \cup { W(p) : p \in Pids }

StopArg(th) == IF th = Reaper THEN rcur ELSE th[2]

AtStopCall(th) ==
    IF th = Reaper THEN rpc = "stopApp" ELSE wpc[th[2]] \in {"stop1", "stop2"}

\* lines 230-242 of the watcher goroutine for event ev: extend the watched
\* set when a matched directory was created, then decide on the reload
WatcherAfter(ap, p, ev) ==
    LET ig == ap[p].ig
    IN  [ap EXCEPT ![p].watched =
            IF /\ ev.create
               /\ \E rel \in RelDirs : ev.name = Join(ap[p].dir, rel)
               /\ matchInverted(ev.name, ig)
               /\ ap[p].watcher = "open"
            THEN @ \cup {ev.name} ELSE @]

\* WatcherNext that reloads on dir/.watch only
WatcherNextWatchFileOnly(ap, p, ev) ==
    IF ap[p].watcher = "closed" THEN "exit" ELSE "recv"

\* where the goroutine goes after line 236: into the second stopApp, or back
\* to the select, which returns at once when the watcher is closed
WatcherNext(ap, p, ev) ==
    IF matchInverted(ev.name, ap[p].ig) THEN "stop2"
    ELSE IF ap[p].watcher = "closed" THEN "exit" ELSE "recv"

\* StopApp without delete(apps, app.name)
StopAppNoDelete(th) ==
    /\ AtStopCall(th)
    /\ mu = Free
    /\ LET a   == StopArg(th)
           ap1 == [app EXCEPT ![a].watcher = "closed", ![a].watched = {}]
       IN  /\ child' = Kill(child, app[a].c)
           /\ apps' = apps
           /\ IF th = Reaper
              THEN /\ rpc' = "range"
                   /\ app' = ap1
                   /\ wpc' = wpc
              ELSE IF wpc[a] = "stop1"
              THEN /\ rpc' = rpc
                   /\ app' = WatcherAfter(ap1, a, wev[a])
                   /\ wpc' = [wpc EXCEPT ![a] = WatcherNext(ap1, a, wev[a])]
              ELSE /\ rpc' = rpc
                   /\ app' = ap1
                   /\ wpc' = [wpc EXCEPT ![a] = "exit"]
    /\ wev' = IF th = Reaper THEN wev ELSE [wev EXCEPT ![th[2]] = NoEvent]
    /\ mu' = mu
    /\ UNCHANGED << call, build, watchFile, now, nproc, req, rtodo, rcur, probed >>

\* stopApp, once the mutex can be had: mu.Lock(); Process.Kill();
\* watcher.Close(); delete(apps, app.name); mu.Unlock(); return to the caller
StopApp(th) ==
    /\ AtStopCall(th)
    /\ mu = Free
    /\ LET a   == StopArg(th)
           ap1 == [app EXCEPT ![a].watcher = "closed", ![a].watched = {}]
       IN  /\ child' = Kill(child, app[a].c)
           /\ apps' = MapDelete(apps, app[a].name)
           /\ IF th = Reaper
              THEN /\ rpc' = "range"
                   /\ app' = ap1
                   /\ wpc' = wpc
              ELSE IF wpc[a] = "stop1"
              THEN /\ rpc' = rpc
                   /\ app' = WatcherAfter(ap1, a, wev[a])
                   /\ wpc' = [wpc EXCEPT ![a] = WatcherNext(ap1, a, wev[a])]
              ELSE /\ rpc' = rpc
                   /\ app' = ap1
                   /\ wpc' = [wpc EXCEPT ![a] = "exit"]
    /\ wev' = IF th = Reaper THEN wev ELSE [wev EXCEPT ![th[2]] = NoEvent]
    /\ mu' = mu
    /\ UNCHANGED << call, build, watchFile, now, nproc, req, rtodo, rcur, probed >>

\* ------------------------------------------------------------- watcher
Events(p) ==
    { [name |-> Join(app[p].dir, rel), create |-> cr] :
        rel \in RelPaths, cr \in BOOLEAN }

\* case event, ok := <-watcher.Events, ok: an event on a watched directory
WatcherRecv(p, ev) ==
    /\ wpc[p] = "recv"
    /\ app[p].watcher = "open"
    /\ ev \in Events(p)
    /\ ev.create = (ev.name = Join(app[p].dir, <<Src, NewDir>>))
    /\ ParentDir(ev.name) \in app[p].watched
    /\ IF ev.name = Join(app[p].dir, <<DotWatch>>)
       THEN /\ wpc' = [wpc EXCEPT ![p] = "stop1"]
            /\ app' = app
       ELSE /\ wpc' = [wpc EXCEPT ![p] = WatcherNext(app, p, ev)]
            /\ app' = WatcherAfter(app, p, ev)
    /\ wev' = IF wpc'[p] = "stop1" THEN [wev EXCEPT ![p] = ev] ELSE wev
    /\ UNCHANGED << call, build, watchFile, now, mu, apps, child, nproc, req,
                    rpc, rtodo, rcur, probed >>

\* -------------------------------------------------------------- reaper
\* Idle that counts a record idle from idleTTL on
IdleFromTTL(t) == now - t >= IdleTTL

\* time.Since(t) > idleTTL
Idle(t) == now - t > IdleTTL

\* the ticker fires: mu.Lock(); for ... range apps
ReaperTick ==
    /\ rpc = "sleep"
    /\ mu = Free
    /\ mu' = Reaper
    /\ rpc' = "range"
    /\ rtodo' = DOMAIN apps
    /\ UNCHANGED << call, build, watchFile, now, apps, app, child, nproc, req,
                    rcur, wpc, wev, probed >>

\* one iteration of the range loop.  main: kill and delete inline;
\* watch: call stopApp(a)
ReaperVisit(n) ==
    /\ rpc = "range"
    /\ n \in rtodo
    /\ rtodo' = rtodo \ {n}
    /\ IF n \notin DOMAIN apps
       THEN UNCHANGED << apps, child, rpc, rcur >>
       ELSE IF build = "main"
       THEN /\ IF Idle(apps[n].t)
               THEN /\ child' = Kill(child, apps[n].c)
                    /\ apps' = MapDelete(apps, n)
               ELSE UNCHANGED << apps, child >>
            /\ UNCHANGED << rpc, rcur >>
       ELSE /\ IF Idle(app[apps[n]].t)
               THEN rpc' = "stopApp" /\ rcur' = apps[n]
               ELSE UNCHANGED << rpc, rcur >>
            /\ UNCHANGED << apps, child >>
    /\ UNCHANGED << call, build, watchFile, now, mu, app, nproc, req, wpc, wev, probed >>

\* the range loop is over: mu.Unlock()
ReaperUnlock ==
    /\ rpc = "range"
    /\ rtodo = {}
    /\ mu' = Free
    /\ rpc' = "sleep"
    /\ UNCHANGED << call, build, watchFile, now, apps, app, child, nproc, req,
                    rtodo, rcur, wpc, wev, probed >>

\* ---------------------------------------------------------------- spec
Next ==
    \/ \E i \in Handlers, host \in Hosts : Route(i, host)
    \/ \E i \in Handlers : HandlerLock(i)
    \/ \E i \in Handlers : StartNoCommand(i)
    \/ \E i \in Handlers : StartSpawn(i)
    \/ \E i \in Handlers : StartSpawnErr(i)
    \/ \E i \in Handlers : StartReady(i)
    \/ \E i \in Handlers : StartTimeout(i)
    \/ \E i \in Handlers : HandlerPublish(i)
    \/ \E p \in Pids : ChildBind(p)
    \/ \E th \in StopCallers : StopApp(th)
    \/ \E p \in Pids : \E ev \in Events(p) : WatcherRecv(p, ev)
    \/ ReaperTick
    \/ \E n \in DOMAIN Root : ReaperVisit(n)
    \/ ReaperUnlock
    \/ Tick

Spec == Init /\ [][Next]_vars

TypeOK ==
    /\ build \in {"main", "watch"}
    /\ now \in Times
    /\ nproc \in 0..MaxRequests
    /\ DOMAIN apps \subseteq DOMAIN Root
    /\ rpc \in {"sleep", "range", "stopApp"}

\* Fairness of the Go scheduler: a goroutine that can take its next step
\* takes it, the ticker fires and time passes.  Requests, file events and a
\* child binding its port are up to the environment.
HandlerStep(i) ==
    \/ HandlerLock(i) \/ StartNoCommand(i) \/ StartSpawn(i) \/ StartSpawnErr(i)
    \/ StartReady(i) \/ StartTimeout(i) \/ HandlerPublish(i)

ReaperStep == ReaperTick \/ (\E n \in DOMAIN Root : ReaperVisit(n)) \/ ReaperUnlock

FairSpec ==
    /\ Spec
    /\ \A i \in Handlers : WF_vars(HandlerStep(i))
    /\ WF_vars(ReaperStep)
    /\ \A th \in StopCallers : WF_vars(StopApp(th))
    /\ WF_vars(Tick)

\* ------------------------------------- functions applied on their own
\* CallSpec applies one function of the program to one argument drawn from
\* a bounded set; the program itself stays in its initial state.
MaxHostLen == 5       \* characters of a Host header

HostChars == {"a", "d", ".", ":", "7"}

Hostnames == UNION { [1..n -> HostChars] : n \in 0..MaxHostLen }

\* contents of dir/.watch at launch: as in WatchFiles, or empty, or naming
\* dir/.watch itself
CallWatchFiles ==
    WatchFiles \cup { [exists |-> TRUE, pats |-> {}],
                      [exists |-> TRUE, pats |-> { <<DotWatch>> }] }

\* events a watcher can receive: on the paths of RelPaths and on dir/Procfile
ProcfileName == <<"P", "r", "o", "c", "f", "i", "l", "e">>

CallEvents ==
    { [name |-> Join(AppDir(NameA), rel), create |-> cr] :
        rel \in RelPaths \cup { <<ProcfileName>> }, cr \in BOOLEAN }

\* paths below the app directory, up to MaxDepth components deep, with and
\* without components that begin with "."
MaxDepth == 2

DotGit == <<".", "g", "i", "t">>

CallComponents == { Src, FileTxt, DotWatch, DotGit }

CallPaths ==
    { Join(AppDir(NameA), rel) :
        rel \in UNION { [1..n -> CallComponents] : n \in 1..MaxDepth } }

\* pattern sets: nil, or any set of these patterns
CallPatterns == { <<Star>>, <<Src, Star>>, <<DotWatch>>, <<FileTxt>> }

CallIgs == { NilIg } \cup { [nil |-> FALSE, pats |-> ps] : ps \in SUBSET CallPatterns }

CallInputs ==
    { [fn |-> "RouteName", arg |-> h, ret |-> <<>>, done |-> FALSE] : h \in Hostnames }
    \cup
    { [fn |-> "watcher", arg |-> [file |-> f, ev |-> ev],
       ret |-> [stops |-> 0, watched |-> {}], done |-> FALSE] :
        f \in CallWatchFiles, ev \in CallEvents }
    \cup
    { [fn |-> "matchInverted", arg |-> [path |-> path, ig |-> ig],
       ret |-> FALSE, done |-> FALSE] : path \in CallPaths, ig \in CallIgs }

CallInit ==
    /\ call \in CallInputs
    /\ ProgInit
    /\ build = "watch"
    /\ ~watchFile.exists

\* handler, line 254-257: the name for r.Host
CallRouteName ==
    /\ call.fn = "RouteName" /\ ~call.done
    /\ call' = [call EXCEPT !.ret = RouteName(call.arg), !.done = TRUE]
    /\ UNCHANGED << build, watchFile, now, mu, apps, app, child, nproc, req,
                    rpc, rtodo, rcur, wpc, wev, probed >>

\* the appInfo of app a as start and startWatcher leave it when dir/.watch
\* holds `file`
LaunchedApp(file) ==
    [NoApp EXCEPT !.name = NameA, !.dir = AppDir(NameA), !.c = 1, !.p = 1,
                  !.watcher = "open", !.watched = LaunchDirs(AppDir(NameA)),
                  !.ig = loadInvertedIgnore(file)]

\* startWatcher, lines 220-242: the goroutine of a launched app handles one
\* event; the result is the number of stopApp calls it makes and the
\* directories watched after line 236
CallWatcher ==
    /\ call.fn = "watcher" /\ ~call.done
    /\ LET ev  == call.arg.ev
           ap  == [p \in {1} |-> LaunchedApp(call.arg.file)]
           one == IF ev.name = Join(ap[1].dir, <<DotWatch>>) THEN 1 ELSE 0
           ap1 == IF one = 1
                  THEN [ap EXCEPT ![1].watcher = "closed", ![1].watched = {}]
                  ELSE ap
           two == IF WatcherNext(ap1, 1, ev) = "stop2" THEN 1 ELSE 0
       IN  call' = [call EXCEPT !.ret = [stops |-> one + two,
                                         watched |-> WatcherAfter(ap1, 1, ev)[1].watched],
                                !.done = TRUE]
    /\ UNCHANGED << build, watchFile, now, mu, apps, app, child, nproc, req,
                    rpc, rtodo, rcur, wpc, wev, probed >>

\* matchInverted(path, ig)
CallMatchInverted ==
    /\ call.fn = "matchInverted" /\ ~call.done
    /\ call' = [call EXCEPT !.ret = matchInverted(call.arg.path, call.arg.ig),
                            !.done = TRUE]
    /\ UNCHANGED << build, watchFile, now, mu, apps, app, child, nproc, req,
                    rpc, rtodo, rcur, wpc, wev, probed >>

CallNext ==
    \/ CallRouteName
    \/ CallWatcher
    \/ CallMatchInverted

CallSpec == CallInit /\ [][CallNext]_vars

\* ------------------------------------------------------------ accessors
Live(p) == child[p].st \in {"running", "listening"}

\* child, proxy port and lastUsed of a record value (main: the struct,
\* watch: the pointer)
RecChild(a) == IF build = "main" THEN a.c ELSE app[a].c

RecPort(a) == IF build = "main" THEN a.p ELSE app[a].p

RecTime(a) == IF build = "main" THEN a.t ELSE app[a].t

Answering == {"serve", "static", "notfound", "err500"}

\* handlers launching the app `n`
Launching(n) ==
    { i \in Handlers : req[i].name = n /\ req[i].pc \in {"start", "wait", "started"} }

\* =============================================================== claims

\* C1, as stated: the requests that route to a name before any record for it
\* was built spawn one child between them.
C1_OneSpawnPerName ==
    \A n \in DOMAIN Root :
        (\A p \in Pids : child[p].name = n => << p, child[p].port >> \notin probed)
            => Cardinality({ p \in Pids : child[p].st # "none" /\ child[p].name = n }) <= 1

\* C1, amended: at any moment at most one handler is launching a given name,
\* and only while the registry has no record for it; a handler that finds a
\* record holds exactly the registry's record and has spawned nothing.  (A
\* launch that fails is repeated by the next handler.)
C1_SingleLaunch ==
    /\ \A n \in DOMAIN Root :
          /\ Cardinality(Launching(n)) <= 1
          /\ Launching(n) # {} => n \notin DOMAIN apps
    /\ \A i \in Handlers :
          req[i].pc = "found" =>
              /\ req[i].name \in DOMAIN apps
              /\ req[i].a = apps[req[i].name]
              /\ req[i].c = 0

\* a handler has launched the app and still holds the mutex while a second
\* request for the same name waits for it
C1_Witness ==
    \E i, j \in Handlers :
        /\ i # j
        /\ req[i].pc = "started"
        /\ req[j].pc = "lock"
        /\ req[j].name = req[i].name

\* C2: in the watch build, a record the reaper finds idle on its tick is
\* eventually removed from the registry (and its child killed).
C2_IdleRecordReaped ==
    \A n \in DOMAIN Root :
        (/\ build = "watch"
         /\ rpc = "range"
         /\ n \in rtodo
         /\ n \in DOMAIN apps
         /\ Idle(RecTime(apps[n])))
        ~> (n \notin DOMAIN apps)

\* C3: a stopApp call for an appInfo that was stopped before leaves the
\* registry and every process as they are.
Stopped(a) == app[a].watcher = "closed"

C3_SecondStopNoOp ==
    [][\A th \in StopCallers :
          (AtStopCall(th) /\ ~AtStopCall(th)' /\ Stopped(StopArg(th)))
              => (apps' = apps /\ child' = child)]_vars

\* C4: while the mutex is free, a name has a record exactly when the child
\* of that record runs and its watcher is open, and every running child
\* belongs to a record.
C4_RecordIffLive ==
    mu = Free =>
        /\ \A n \in DOMAIN apps :
              /\ Live(RecChild(apps[n]))
              /\ build = "watch" => app[apps[n]].watcher = "open"
        /\ \A p \in Pids :
              Live(p) => \E n \in DOMAIN apps : RecChild(apps[n]) = p

\* C5: after a launch that failed on the readiness timeout, the child
\* spawned for it is no longer running.
C5_TimeoutKillsChild ==
    \A i \in Handlers :
        (req[i].pc = "err500" /\ req[i].err = "timeout") => ~Live(req[i].c)

\* C6: a failed launch ends in a 500 with the mutex released and the
\* registry as it was, without a record for the name; whether a request
\* launches depends on the registry alone.
C6_FailedLaunch ==
    [][\A i \in Handlers :
          /\ (req[i].pc \in {"start", "wait"}
                 /\ req'[i].pc \notin {"start", "wait", "started"})
                => /\ req'[i].pc = "err500" /\ req'[i].err # ""
                   /\ mu = H(i) /\ mu' = Free
                   /\ apps' = apps
                   /\ req[i].name \notin DOMAIN apps
          /\ (req[i].pc = "lock" /\ req'[i].pc # "lock")
                => (req'[i].pc = "start") = (req[i].name \notin DOMAIN apps)]_vars

\* two requests were answered 500, one for a timeout and one for a Procfile
\* without a command
C6_Witness ==
    \E i, j \in Handlers :
        /\ req[i].pc = "err500" /\ req[i].err = "timeout"
        /\ req[j].pc = "err500" /\ req[j].err = "no web entry"
        /\ mu = Free
        /\ req[i].name \notin DOMAIN apps

\* C7: every record of the registry, and every record a request is
\* forwarded to, was built after waitPort succeeded on its port, and its
\* proxy targets the port given to its child as PORT.
Ready(a) ==
    /\ << RecChild(a), RecPort(a) >> \in probed
    /\ child[RecChild(a)].port = RecPort(a)

C7_ReadyBeforeVisible ==
    /\ \A n \in DOMAIN apps : Ready(apps[n])
    /\ \A i \in Handlers : req[i].pc = "serve" => Ready(req[i].a)

C7_Witness ==
    \E i \in Handlers :
        /\ req[i].pc = "serve"
        /\ req[i].name \in DOMAIN apps
        /\ child[RecChild(req[i].a)].st = "listening"

\* C8: a handler that is answering (proxying, static files, 404, 500) does
\* not hold the registry mutex.
C8_ServeUnlocked ==
    \A i \in Handlers : req[i].pc \in Answering => mu # H(i)

\* a request is being proxied while another thread holds the mutex
C8_Witness ==
    \E i \in Handlers : req[i].pc = "serve" /\ mu \notin {Free, H(i)}

\* C9: the step that dispatches a request to a proxy is taken under the
\* mutex and leaves the registry's record of that name with lastUsed = now;
\* the lastUsed of a record never decreases.
C9_LastUsed ==
    [][/\ \A i \in Handlers :
             (req[i].pc # "serve" /\ req'[i].pc = "serve")
                => /\ mu = H(i)
                   /\ req[i].name \in DOMAIN apps'
                   /\ apps'[req[i].name] = req'[i].a
                   /\ RecTime(apps[req[i].name])' = now
       /\ \A n \in DOMAIN apps :
             (n \in DOMAIN apps' /\ RecChild(apps[n])' = RecChild(apps[n]))
                => RecTime(apps[n])' >= RecTime(apps[n])
       /\ \A p \in Pids : app'[p].t >= app[p].t]_vars

\* a request reused a record launched earlier and moved its lastUsed on
C9_Witness ==
    \E i \in Handlers :
        /\ req[i].pc = "serve"
        /\ req[i].c = 0
        /\ now > 0
        /\ req[i].name \in DOMAIN apps
        /\ RecTime(apps[req[i].name]) = now

\* C10: the first step of a request answers 404 exactly when root/name is
\* no directory, serves static files exactly when it is a directory without
\* Procfile, and goes for the registry otherwise; a request answered 404 or
\* with static files never holds the mutex and changes neither the registry
\* nor the processes.
C10_Routing ==
    [][\A i \in Handlers :
          /\ (req[i].pc = "idle" /\ req'[i].pc # "idle") =>
                LET n  == req'[i].name
                    isDir == n \in DOMAIN Root /\ Root[n].isDir
                IN  /\ req'[i].pc = "notfound" <=> ~isDir
                    /\ req'[i].pc = "static" <=> (isDir /\ ~Root[n].procfile.exists)
                    /\ req'[i].pc = "lock" <=> (isDir /\ Root[n].procfile.exists)
          /\ (req'[i] # req[i] /\ ({req[i].pc, req'[i].pc} \cap {"notfound", "static"} # {})) =>
                /\ mu # H(i) /\ mu' = mu
                /\ apps' = apps /\ child' = child /\ nproc' = nproc]_vars

\* a request arriving after an app was registered is answered with static
\* files or a 404
C10_Witness ==
    \E i, j \in Handlers :
        /\ i < j
        /\ req[i].pc = "serve"
        /\ req[i].name \in DOMAIN apps
        /\ req[j].pc \in {"static", "notfound"}

\* C11: the name is the Host up to its first ':', less one trailing domain,
\* less one trailing '.', and "www" when nothing is left; so <name>.<domain>
\* with or without a port gives name, and <domain> with or without a port
\* gives "www".
UpToColon(h) ==
    LET k == CHOOSE k \in 0..Len(h) :
                 /\ \A j \in 1..k : h[j] # ":"
                 /\ (k = Len(h) \/ h[k + 1] = ":")
    IN  [j \in 1..k |-> h[j]]

LessOne(s, suf) ==
    LET cut == Len(s) - Len(suf)
    IN  IF cut >= 0 /\ (\A j \in 1..Len(suf) : s[cut + j] = suf[j])
        THEN [j \in 1..cut |-> s[j]] ELSE s

NameOfHost(h) ==
    LET n == LessOne(LessOne(UpToColon(h), Domain), <<".">>)
    IN  IF Len(n) = 0 THEN WWW ELSE n

Labels == { <<"a">>, <<"d">>, <<"a", "a">>, <<"a", "d">>, <<"d", "a">>, <<"a", "a", "a">> }

PortSuffixes == { <<>>, <<":", "7">>, <<":", "7", "7">>, <<":">> }

C11_HostToName ==
    (call.fn = "RouteName" /\ call.done) =>
        /\ call.ret = NameOfHost(call.arg)
        /\ \A n \in Labels, port \in PortSuffixes :
              call.arg = n \o <<".">> \o Domain \o port => call.ret = n
        /\ \A port \in PortSuffixes :
              call.arg = Domain \o port => call.ret = WWW

\* the name of Host "a.d:7" was computed
C11_Witness ==
    /\ call.fn = "RouteName" /\ call.done
    /\ call.arg = <<"a", ".", "d", ":", "7">>
    /\ call.ret = <<"a">>

\* C12: handling a file event on dir/Procfile calls stopApp, whatever
\* dir/.watch held at launch.
C12_ProcfileChangeStops ==
    (/\ call.fn = "watcher" /\ call.done
     /\ call.arg.ev.name = Join(AppDir(NameA), <<ProcfileName>>))
        => call.ret.stops > 0

\* C13: handling a file event calls stopApp exactly when the event is on
\* dir/.watch or a pattern of the dir/.watch loaded at launch matches its
\* path; with dir/.watch absent or empty, only an event on dir/.watch does.
C13_StopIffMatched ==
    (call.fn = "watcher" /\ call.done) =>
        LET file    == call.arg.file
            name    == call.arg.ev.name
            onWatch == name = Join(AppDir(NameA), <<DotWatch>>)
            stopped == call.ret.stops > 0
        IN  /\ stopped <=>
                  (onWatch \/ (file.exists /\ MatchesPath([pats |-> file.pats], name)))
            /\ (~file.exists \/ file.pats = {}) => (stopped <=> onWatch)

\* an event on src/a.txt stopped an app launched with "src/*" in dir/.watch
C13_Witness ==
    /\ call.fn = "watcher" /\ call.done
    /\ call.arg.file.pats = { <<Src, Star>> }
    /\ call.arg.ev.name = Join(AppDir(NameA), <<Src, FileTxt>>)
    /\ call.ret.stops = 1

\* C14: the step in which a watcher adds a created directory matched by its
\* ignore set to the watched set leaves the goroutine waiting for the next
\* event, not on its way into stopApp, with the record registered, the child
\* running and the watcher open.
C14_DirCreateKeepsApp ==
    [][\A p \in Pids :
          (app[p].watched # app'[p].watched /\ app[p].watched \subseteq app'[p].watched
              /\ app[p].watcher = "open")
            => /\ wpc'[p] = "recv"
               /\ app'[p].watcher = "open"
               /\ child'[app[p].c].st \in {"running", "listening"}]_vars

\* C15: a record that was stopped (watch build: stopApp ran on it; main
\* build: the reaper killed its child) is not in the registry again; a
\* request that finds no record for its name launches, and the record it
\* inserts belongs to a child spawned by this request, with a watcher of its
\* own that is open and the ignore set loaded from dir/.watch by this launch.
StoppedRec(p) ==
    IF build = "watch" THEN app[p].watcher = "closed" ELSE child[p].st = "dead"

C15_StoppedIsTerminal ==
    [][/\ \A n \in DOMAIN apps' : ~StoppedRec(RecChild(apps[n]))'
       /\ \A i \in Handlers :
             /\ (req[i].pc = "lock" /\ req'[i].pc # "lock" /\ req[i].name \notin DOMAIN apps)
                    => req'[i].pc = "start"
             /\ (req[i].pc = "started" /\ req'[i].pc = "serve")
                    => LET c == req[i].c
                       IN  /\ req[i].name \notin DOMAIN apps
                           /\ RecChild(apps[req[i].name])' = c
                           /\ \A j \in Handlers \ {i} : req[j].c # c
                           /\ build = "watch" =>
                                 /\ app'[c].watcher = "open"
                                 /\ app'[c].ig = loadInvertedIgnore(watchFile)
                                 /\ wpc'[c] \in {"recv", "stop1", "stop2"}]_vars

\* a name whose record was stopped by its watcher has a new record
C15_Witness ==
    \E n \in DOMAIN apps, p \in Pids :
        /\ build = "watch"
        /\ app[p].name = n
        /\ StoppedRec(p)
        /\ apps[n] # p
        /\ app[apps[n]].watcher = "open"

\* C16: the reaper removes a record (main build), or hands it to stopApp
\* (watch build), only while it holds the mutex and only when the record's
\* lastUsed lies more than idleTTL back at that moment; while the reaper
\* holds the mutex no handler moves a lastUsed, and in the main build
\* nothing else removes a record.
C16_ReapOnlyIdle ==
    [][/\ \A n \in DOMAIN apps :
             (mu = Reaper /\ n \notin DOMAIN apps')
                => (rpc = "range" /\ now - RecTime(apps[n]) > IdleTTL)
       /\ (rpc # "stopApp" /\ rpc' = "stopApp")
             => /\ mu = Reaper
                /\ \E n \in DOMAIN apps : apps[n] = rcur'
                /\ now - app[rcur'].t > IdleTTL
       /\ mu = Reaper
             => \A n \in DOMAIN apps \cap DOMAIN apps' :
                    RecTime(apps[n])' = RecTime(apps[n])
       /\ (build = "main" /\ DOMAIN apps \ DOMAIN apps' # {}) => mu = Reaper]_vars

\* main build: the reaper, in its loop, has removed a record and killed its
\* child
C16_Witness ==
    /\ build = "main"
    /\ rpc = "range"
    /\ \E p \in Pids : child[p].st = "dead" /\ child[p].name \notin DOMAIN apps

\* C17: no thread is at the mu.Lock() of stopApp while it holds the mutex
\* itself.
C17_NoSelfLock ==
    \A th \in StopCallers : AtStopCall(th) => mu # th

\* C18: matchInverted gives false for a nil set; for a loaded set and a path
\* with a component beginning with "." it gives true only if the set matches
\* the path, for a path without such a component exactly when the set
\* matches; so for a loaded set it gives what the set's own match gives.
HasDotComponent(path) == \E i \in 1..Len(path) : path[i] # <<>> /\ path[i][1] = "."

C18_MatchInverted ==
    (call.fn = "matchInverted" /\ call.done) =>
        LET path == call.arg.path
            ig   == call.arg.ig
        IN  /\ ig.nil => call.ret = FALSE
            /\ (~ig.nil /\ HasDotComponent(path)) => (call.ret => MatchesPath(ig, path))
            /\ (~ig.nil /\ ~HasDotComponent(path)) => (call.ret <=> MatchesPath(ig, path))
            /\ ~ig.nil => (call.ret <=> MatchesPath(ig, path))

\* matchInverted gave true for a path below .git under the set { * }
C18_Witness ==
    /\ call.fn = "matchInverted" /\ call.done
    /\ call.arg.path = Join(AppDir(NameA), <<DotGit, FileTxt>>)
    /\ call.arg.ig = [nil |-> FALSE, pats |-> { <<Star>> }]
    /\ call.ret = TRUE

\* C19: the command of a launch is what follows "web:" on the first line of
\* the Procfile that begins with it, without the white space around it, and
\* no other line counts; when that is empty, or no line begins with "web:",
\* the launch fails with the no-web-entry error, the request has no port and
\* no process was spawned.
WebLines(lines) ==
    { k \in 1..Len(lines) :
        /\ Len(lines[k]) >= 4
        /\ << lines[k][1], lines[k][2], lines[k][3], lines[k][4] >> = <<"w", "e", "b", ":">> }

Blank(c) == c = " " \/ c = "\t"

Stripped(s) ==
    LET ink == { j \in 1..Len(s) : ~Blank(s[j]) }
    IN  IF ink = {} THEN <<>>
        ELSE LET lo == CHOOSE j \in ink : \A k \in ink : j <= k
                 hi == CHOOSE j \in ink : \A k \in ink : j >= k
             IN  [j \in 1..(hi - lo + 1) |-> s[lo + j - 1]]

FirstWebCommand(lines) ==
    IF WebLines(lines) = {} THEN <<>>
    ELSE LET k == CHOOSE j \in WebLines(lines) : \A m \in WebLines(lines) : j <= m
         IN  Stripped([j \in 1..(Len(lines[k]) - 4) |-> lines[k][j + 4]])

C19_FirstWebLine ==
    [][\A i \in Handlers :
          (req[i].pc = "start" /\ req'[i].pc # "start"
              /\ Root[req[i].name].procfile.readable) =>
             LET cmd == FirstWebCommand(Root[req[i].name].procfile.lines)
             IN  IF cmd = <<>>
                 THEN /\ req'[i].pc = "err500" /\ req'[i].err = "no web entry"
                      /\ req'[i].fp = 0 /\ req'[i].c = 0
                      /\ child' = child /\ nproc' = nproc
                 ELSE /\ req'[i].pc \in {"wait", "err500"}
                      /\ req'[i].pc = "err500" => req'[i].err # "no web entry"
                      /\ req'[i].pc = "wait" =>
                            /\ nproc' = nproc + 1 /\ req'[i].c = nproc'
                            /\ child'[nproc'].cmd = cmd
                            /\ child'[nproc'].port = req'[i].fp]_vars

\* a request for b, whose first web: line is empty, was answered with the
\* no-web-entry error, and one for a was launched with the command "r"
C19_Witness ==
    \E i, j \in Handlers :
        /\ req[i].name = NameB /\ req[i].pc = "err500" /\ req[i].err = "no web entry"
        /\ req[j].name = NameA /\ req[j].c # 0 /\ child[req[j].c].cmd = <<"r">>

====
